---- MODULE Spec2Model ----
(***************************************************************************)
(* ros2_fmt_logger::Logger (include/ros2_fmt_logger/ros2_fmt_logger.hpp):  *)
(* the rate-controlled logging operations log, log_once, log_throttle and *)
(* log_on_change (with and without threshold), their per-call-site static *)
(* state, the sink's severity predicate and the logger's clock.           *)
(*                                                                         *)
(* A call site is one template instantiation (the Unique lambda type of   *)
(* the public wrappers): it owns one function-local static.               *)
(***************************************************************************)
EXTENDS Integers, Sequences, FiniteSets, TLC

\* ---------------------------------------------------------------- bounds

\* Clock readings range over 0..MaxTime (nanoseconds, scaled).
MaxTime == 4
\* Monitored values range over 0..MaxValue.
MaxValue == 3
\* Thresholds and durations range over -1..MaxParam.
MaxParam == 2
\* History counters (calls, emissions, changes) saturate at Cap.
Cap == 2
\* Function signatures have at most MaxLen characters.
MaxLen == 4

\* ------------------------------------------------------------ vocabulary

None == "none"

\* std::optional<T>: empty, or holding a value.
NoValue == <<>>
Some(v) == <<v>>

\* RCUTILS_LOG_SEVERITY, in increasing order.
Severities == {"DEBUG", "INFO", "WARN", "ERROR", "FATAL"}

SeverityRank(sev) ==
    CASE sev = "DEBUG" -> 1 [] sev = "INFO" -> 2 [] sev = "WARN" -> 3
      [] sev = "ERROR" -> 4 [] sev = "FATAL" -> 5

\* Levels the sink is switched between.
Levels == {"DEBUG", "ERROR", "FATAL"}

\* Logger instances: the rclcpp::Logger name, and the type of clock_.
Loggers == {"A", "B"}

\* clock_ defaults to RCL_STEADY_TIME; a logger can be built on another clock.
ClockTypeOf(l) == IF l = "A" THEN "steady" ELSE "ros"

ClockTypes == {ClockTypeOf(l) : l \in Loggers}

\* Call sites, one set per rate-control mode.
PlainSites == {"p1"}
OnceSites == {"o1", "o2"}
ThrottleSites == {"t1"}
ChangeSites == {"c1"}
ThresholdSites == {"h1"}

Sites == PlainSites \cup OnceSites \cup ThrottleSites \cup ChangeSites \cup ThresholdSites

\* Rendered texts; a pattern that does not match its arguments renders none.
Msgs == {"m1", "m2"}

Times == 0..MaxTime
Values == 0..MaxValue
Params == -1..MaxParam

Abs(x) == IF x < 0 THEN -x ELSE x

Sat(n) == IF n > Cap THEN Cap ELSE n

\* ------------------------------------------------------------------ state

VARIABLES
    level,           \* sink: the effective level of each logger
    clock,           \* the reading of each clock
    already_logged,  \* log_once: static bool, per call site
    last_logged,     \* log_throttle: static rclcpp::Time, per call site
    last_value,      \* log_on_change: static std::optional, per call site
    call,            \* the last operation: inputs, state before, outcome
    hist,            \* per call site: what has been called and emitted so far
    pc,              \* threads: position inside log_once / log_throttle
    local,           \* threads: the locals of the running call
    signature        \* std::source_location::function_name() at the call sites

vars == <<level, clock, already_logged, last_logged, last_value, call, hist, pc, local,
          signature>>

\* ------------------------------------------------------------------- sink

\* rcutils_logging_logger_is_enabled_for(get_name(), severity).
IsEnabledFor(l, sev) == SeverityRank(sev) >= SeverityRank(level[l])

\* Strings whose characters matter are sequences of one-character strings.
\* std::string_view::npos, with positions counted from 1.
npos == 0

\* The first position from i on where c stands.
RECURSIVE FindFrom(_, _, _)
FindFrom(str, c, i) ==
    IF i > Len(str) THEN npos
    ELSE IF str[i] = c THEN i
    ELSE FindFrom(str, c, i + 1)

\* full_signature.find(c): the first position of c.
find(str, c) == FindFrom(str, c, 1)

\* The last position from i down where "::" begins.
RECURSIVE RFindFrom(_, _)
RFindFrom(str, i) ==
    IF i < 1 THEN npos
    ELSE IF i < Len(str) /\ str[i] = ":" /\ str[i + 1] = ":" THEN i
    ELSE RFindFrom(str, i - 1)

\* A search from the front: the first position not after pos where "::" begins.
RECURSIVE FindColonsFrom(_, _, _)
FindColonsFrom(str, i, pos) ==
    IF i > pos \/ i >= Len(str) THEN npos
    ELSE IF str[i] = ":" /\ str[i + 1] = ":" THEN i
    ELSE FindColonsFrom(str, i + 1, pos)

rfind_first(str, pos) == FindColonsFrom(str, 1, pos)

\* full_signature.rfind("::", pos): the last position not after pos where
\* "::" begins.
rfind(str, pos) == RFindFrom(str, pos)

\* Logger::extract_function_name.
extract_function_name(full_signature) ==
    LET parenthesis == find(full_signature, "(")
    IN  IF parenthesis = npos
        THEN full_signature
        ELSE LET last_colon == rfind(full_signature, parenthesis)
                 start == IF last_colon = npos THEN 1 ELSE last_colon + 2
             IN  SubSeq(full_signature, start, parenthesis - 1)

\* The characters signatures are made of here: a letter, the space after a
\* return type, the colon of a scope separator, the opening parenthesis.
Chars == {"f", " ", ":", "("}

RECURSIVE StringsOf(_)
StringsOf(n) ==
    IF n = 0 THEN {<<>>}
    ELSE {Append(str, c) : str \in StringsOf(n - 1), c \in Chars}

\* The signatures of at most MaxLen characters.
Signatures == UNION {StringsOf(n) : n \in 0..MaxLen}

\* The signature of the test bodies, "virtual void T::TestBody()", shortened.
TestBody == <<"v", " ", "T", ":", ":", "B", "(", ")">>

\* format_with_loc: the pattern (here, with its arguments, the text it
\* renders) and std::source_location::current() at the call expression of
\* call site s: its file and line, and the enclosing function's signature.
FormatWithLoc(str, s) ==
    [str |-> str, loc |-> [file_line |-> s, function_name |-> signature]]

\* The format_with_loc log_throttle builds for ex.what(): "{}", located in
\* log_throttle itself.
RCLErrorFormat ==
    [str |-> "what",
     loc |-> [file_line |-> "log_throttle",
              function_name |-> <<"v", " ", "L", ":", ":", "l", "(", ")">>]]

\* What one emission hands to rcutils_log: the location (the function name
\* extracted from the signature, and the file and line, which name the call
\* site), the severity, the logger's name and the rendered text.
Emission(l, sev, format) ==
    [location |-> [function_name |-> extract_function_name(format.loc.function_name),
                   file_line |-> format.loc.file_line],
     severity |-> sev, name |-> l, text |-> format.str]

\* The outcome of a call: what reached the sink, and what it threw.
Outcome(out, threw) == [out |-> out, threw |-> threw]

Nothing == Outcome(<<>>, "none")

\* log without the enabled check.
log_unguarded(l, sev, format, fmtOk) ==
    IF fmtOk
    THEN Outcome(<<Emission(l, sev, format)>>, "none")
    ELSE Outcome(<<>>, "format_error")

\* log that drops a message whose pattern does not match.
log_swallows_format_error(l, sev, format, fmtOk) ==
    IF IsEnabledFor(l, sev)
    THEN IF fmtOk
         THEN Outcome(<<Emission(l, sev, format)>>, "none")
         ELSE Nothing
    ELSE Nothing

\* log that renders the pattern before it looks at the severity.
log_formats_first(l, sev, format, fmtOk) ==
    IF ~fmtOk THEN Outcome(<<>>, "format_error")
    ELSE IF IsEnabledFor(l, sev) THEN Outcome(<<Emission(l, sev, format)>>, "none")
    ELSE Nothing

\* Logger::log: the enabled check, then fmt::vformat (which throws
\* fmt::format_error on a pattern that does not match), then rcutils_log.
log(l, sev, format, fmtOk) ==
    IF IsEnabledFor(l, sev)
    THEN IF fmtOk
         THEN Outcome(<<Emission(l, sev, format)>>, "none")
         ELSE Outcome(<<>>, "format_error")
    ELSE Nothing

\* ------------------------------------------------------------- call sites

\* One closure type for all the once call sites.
Unique_shared(s) == IF s \in OnceSites THEN "o1" ELSE s

\* typename Unique = decltype([]() {}): the closure type of the default
\* template argument, a new one at every call expression.  It selects the
\* instantiation of the handler and with it the function-local static.
Unique(s) == s

\* ------------------------------------------------- the handlers, as steps
\* Each step maps the call site's static and the call's inputs to the new
\* static (next) and the outcome (res).

Step(next, res) == [next |-> next, res |-> res]

\* log_once that sets the flag only after the message has been forwarded.
log_once_sets_on_emission(flag, l, sev, format, fmtOk) ==
    IF ~flag
    THEN LET r == log(l, sev, format, fmtOk)
         IN  Step(r.out # <<>>, r)
    ELSE Step(flag, Nothing)

\* log_once that never sets the flag.
log_once_no_set(flag, l, sev, format, fmtOk) ==
    IF ~flag THEN Step(flag, log(l, sev, format, fmtOk)) ELSE Step(flag, Nothing)

\* log_once that clears the flag when it suppresses a call.
log_once_clears(flag, l, sev, format, fmtOk) ==
    IF ~flag
    THEN Step(TRUE, log(l, sev, format, fmtOk))
    ELSE Step(FALSE, Nothing)

\* Logger::log_once: the flag is set before log is called.
log_once(flag, l, sev, format, fmtOk) ==
    IF ~flag
    THEN Step(TRUE, log(l, sev, format, fmtOk))
    ELSE Step(flag, Nothing)

\* rclcpp::Time: nanoseconds and the clock type.
Time(ns, type) == [ns |-> ns, type |-> type]

\* The static of log_throttle before its initialisation.
Uninitialised == Time(0, "uninit")

\* static rclcpp::Time last_logged(0, clock_.get_clock_type()): initialised by
\* the first call to reach it, with the clock type of that call's logger.
InitLastLogged(last, l) ==
    IF last.type = "uninit" THEN Time(0, ClockTypeOf(l)) ELSE last

\* The elapsed test with > in place of >=.
Elapsed_strict(now, last, duration) == (now - last) > duration

\* (now - last_logged) >= duration
Elapsed(now, last, duration) == (now - last) >= duration

\* log_throttle that drops the message when the clock cannot be read.
log_throttle_fail_closed(last, l, sev, duration, format, fmtOk, clockOk) ==
    LET init == InitLastLogged(last, l)
        now == Time(clock[ClockTypeOf(l)], ClockTypeOf(l))
    IN  IF ~clockOk
        THEN Step(init, log(l, "ERROR", RCLErrorFormat, TRUE))
        ELSE IF now.type # init.type
        THEN Step(init, Outcome(<<>>, "runtime_error"))
        ELSE IF Elapsed(now.ns, init.ns, duration)
             THEN Step(now, log(l, sev, format, fmtOk))
             ELSE Step(init, Nothing)

\* log_throttle that puts last_logged back to zero when the clock cannot be
\* read.
log_throttle_resets(last, l, sev, duration, format, fmtOk, clockOk) ==
    LET init == InitLastLogged(last, l)
        now == Time(clock[ClockTypeOf(l)], ClockTypeOf(l))
    IN  IF ~clockOk
        THEN LET diag == log(l, "ERROR", RCLErrorFormat, TRUE)
                 orig == log(l, sev, format, fmtOk)
             IN  Step(Time(0, init.type), Outcome(diag.out \o orig.out, orig.threw))
        ELSE IF now.type # init.type
        THEN Step(init, Outcome(<<>>, "runtime_error"))
        ELSE IF Elapsed(now.ns, init.ns, duration)
             THEN Step(now, log(l, sev, format, fmtOk))
             ELSE Step(init, Nothing)

\* log_throttle whose fail-open emission starts a new window.
log_throttle_failure_stamps(last, l, sev, duration, format, fmtOk, clockOk) ==
    LET init == InitLastLogged(last, l)
        now == Time(clock[ClockTypeOf(l)], ClockTypeOf(l))
    IN  IF ~clockOk
        THEN LET diag == log(l, "ERROR", RCLErrorFormat, TRUE)
                 orig == log(l, sev, format, fmtOk)
             IN  Step(Time(now.ns, init.type), Outcome(diag.out \o orig.out, orig.threw))
        ELSE IF now.type # init.type
        THEN Step(init, Outcome(<<>>, "runtime_error"))
        ELSE IF Elapsed(now.ns, init.ns, duration)
             THEN Step(now, log(l, sev, format, fmtOk))
             ELSE Step(init, Nothing)

\* log_throttle that writes last_logged only when the message was forwarded.
log_throttle_stamps_on_emission(last, l, sev, duration, format, fmtOk, clockOk) ==
    LET init == InitLastLogged(last, l)
        now == Time(clock[ClockTypeOf(l)], ClockTypeOf(l))
    IN  IF ~clockOk
        THEN LET diag == log(l, "ERROR", RCLErrorFormat, TRUE)
                 orig == log(l, sev, format, fmtOk)
             IN  Step(init, Outcome(diag.out \o orig.out, orig.threw))
        ELSE IF now.type # init.type
        THEN Step(init, Outcome(<<>>, "runtime_error"))
        ELSE IF Elapsed(now.ns, init.ns, duration)
             THEN LET r == log(l, sev, format, fmtOk)
                  IN  Step(IF r.out # <<>> THEN now ELSE init, r)
             ELSE Step(init, Nothing)

\* log_throttle that stamps every attempt, suppressed or not.
log_throttle_stamps_attempts(last, l, sev, duration, format, fmtOk, clockOk) ==
    LET init == InitLastLogged(last, l)
        now == Time(clock[ClockTypeOf(l)], ClockTypeOf(l))
    IN  IF ~clockOk
        THEN LET diag == log(l, "ERROR", RCLErrorFormat, TRUE)
                 orig == log(l, sev, format, fmtOk)
             IN  Step(init, Outcome(diag.out \o orig.out, orig.threw))
        ELSE IF now.type # init.type
        THEN Step(init, Outcome(<<>>, "runtime_error"))
        ELSE IF Elapsed(now.ns, init.ns, duration)
             THEN Step(now, log(l, sev, format, fmtOk))
             ELSE Step(now, Nothing)

\* Logger::log_throttle.  clock_.now() throws RCLError when the clock cannot
\* be read: the handler logs the error text at ERROR and then the message.
\* Time - Time throws std::runtime_error (not caught here) when the two
\* clock types differ.  A format error of log leaves last_logged assigned.
log_throttle(last, l, sev, duration, format, fmtOk, clockOk) ==
    LET init == InitLastLogged(last, l)
        now == Time(clock[ClockTypeOf(l)], ClockTypeOf(l))
    IN  IF ~clockOk
        THEN LET diag == log(l, "ERROR", RCLErrorFormat, TRUE)
                 orig == log(l, sev, format, fmtOk)
             IN  Step(init, Outcome(diag.out \o orig.out, orig.threw))
        ELSE IF now.type # init.type
        THEN Step(init, Outcome(<<>>, "runtime_error"))
        ELSE IF Elapsed(now.ns, init.ns, duration)
             THEN Step(now, log(l, sev, format, fmtOk))
             ELSE Step(init, Nothing)

\* log_on_change that logs the first observation too.
log_on_change_logs_first(last, l, sev, value, format, fmtOk) ==
    IF last = NoValue \/ last[1] # value
    THEN LET r == log(l, sev, format, fmtOk)
         IN  Step(IF r.threw = "none" THEN Some(value) ELSE last, r)
    ELSE Step(last, Nothing)

\* Logger::log_on_change (no threshold).  When log throws, the assignment
\* last_value = value is not reached.
log_on_change(last, l, sev, value, format, fmtOk) ==
    IF last = NoValue \/ last[1] # value
    THEN LET r == IF last # NoValue THEN log(l, sev, format, fmtOk) ELSE Nothing
         IN  Step(IF r.threw = "none" THEN Some(value) ELSE last, r)
    ELSE Step(last, Nothing)

\* The threshold form that logs the first observation too.
log_on_change_threshold_logs_first(last, l, sev, value, threshold, format, fmtOk) ==
    IF last = NoValue \/ Abs(value - last[1]) >= threshold
    THEN LET r == log(l, sev, format, fmtOk)
         IN  Step(IF r.threw = "none" THEN Some(value) ELSE last, r)
    ELSE Step(last, Nothing)

\* The threshold form with the baseline advanced on every call.
log_on_change_threshold_always_store(last, l, sev, value, threshold, format, fmtOk) ==
    IF last = NoValue \/ Abs(value - last[1]) >= threshold
    THEN LET r == IF last # NoValue THEN log(l, sev, format, fmtOk) ELSE Nothing
         IN  Step(IF r.threw = "none" THEN Some(value) ELSE last, r)
    ELSE Step(Some(value), Nothing)

\* The threshold form with > in place of >=.
log_on_change_threshold_strict(last, l, sev, value, threshold, format, fmtOk) ==
    IF last = NoValue \/ Abs(value - last[1]) > threshold
    THEN LET r == IF last # NoValue THEN log(l, sev, format, fmtOk) ELSE Nothing
         IN  Step(IF r.threw = "none" THEN Some(value) ELSE last, r)
    ELSE Step(last, Nothing)

\* Logger::log_on_change (threshold): last_value is assigned only inside the
\* if, so a call below the threshold leaves it alone.
log_on_change_threshold(last, l, sev, value, threshold, format, fmtOk) ==
    IF last = NoValue \/ Abs(value - last[1]) >= threshold
    THEN LET r == IF last # NoValue THEN log(l, sev, format, fmtOk) ELSE Nothing
         IN  Step(IF r.threw = "none" THEN Some(value) ELSE last, r)
    ELSE Step(last, Nothing)

\* ---------------------------------------------------------------- history
\* What has happened at a call site so far.  called: it has been invoked;
\* clean: every call so far had its severity enabled, a matching pattern and
\* a readable clock, and returned normally; emits: emissions of the requested
\* message (saturating at Cap).

\* Whether the requested message itself (not only the clock diagnostic)
\* reached the sink.
Emitted(res) == \E i \in 1..Len(res.out) : res.out[i].text \in Msgs

CleanAfter(h, l, sev, fmtOk, clockOk, res) ==
    h.clean /\ IsEnabledFor(l, sev) /\ fmtOk /\ clockOk /\ res.threw = "none"

EmitsAfter(h, res) == IF Emitted(res) THEN Sat(h.emits + 1) ELSE h.emits

NoPlainHistory == [called |-> FALSE, clean |-> TRUE, emits |-> 0]

PlainHistory(h, l, sev, msg, fmtOk, res) ==
    [called |-> TRUE, clean |-> CleanAfter(h, l, sev, fmtOk, TRUE, res),
     emits |-> EmitsAfter(h, res)]

\* first: the message of the first invocation; lastEmit: the message emitted
\* last; by: the logger that emitted last.
NoOnceHistory ==
    [called |-> FALSE, clean |-> TRUE, emits |-> 0, first |-> NoValue, lastEmit |-> NoValue,
     by |-> NoValue]

OnceHistory(h, l, sev, msg, fmtOk, res) ==
    [called |-> TRUE, clean |-> CleanAfter(h, l, sev, fmtOk, TRUE, res),
     emits |-> EmitsAfter(h, res),
     first |-> IF h.called THEN h.first ELSE Some(msg),
     lastEmit |-> IF Emitted(res) THEN Some(msg) ELSE h.lastEmit,
     by |-> IF Emitted(res) THEN Some(l) ELSE h.by]

\* lastEmit: the clock reading of the call that emitted last; gap: the
\* smallest distance between the clock readings of two successive emissions.
NoThrottleHistory ==
    [called |-> FALSE, clean |-> TRUE, emits |-> 0, lastEmit |-> NoValue, gap |-> NoValue]

GapAfter(h, now) ==
    IF h.lastEmit = NoValue THEN h.gap
    ELSE LET g == now - h.lastEmit[1]
         IN  IF h.gap = NoValue \/ g < h.gap[1] THEN Some(g) ELSE h.gap

ThrottleHistory(h, l, sev, now, msg, fmtOk, clockOk, res) ==
    [called |-> TRUE, clean |-> CleanAfter(h, l, sev, fmtOk, clockOk, res),
     emits |-> EmitsAfter(h, res),
     lastEmit |-> IF Emitted(res) /\ clockOk THEN Some(now) ELSE h.lastEmit,
     gap |-> IF Emitted(res) /\ clockOk THEN GapAfter(h, now) ELSE h.gap]

\* prev: the value of the previous call; changes: the calls after the first
\* whose value was not that of the call before (saturating at Cap).
NoChangeHistory ==
    [called |-> FALSE, clean |-> TRUE, emits |-> 0, prev |-> NoValue, changes |-> 0]

ChangeHistory(h, l, sev, value, msg, fmtOk, res) ==
    [called |-> TRUE, clean |-> CleanAfter(h, l, sev, fmtOk, TRUE, res),
     emits |-> EmitsAfter(h, res),
     prev |-> Some(value),
     changes |-> IF h.called /\ Some(value) # h.prev THEN Sat(h.changes + 1) ELSE h.changes]

\* prev: the value of the previous call; ref: the value of the call that
\* emitted last and, before any emission, the value of the first call;
\* thr: the threshold of the previous call; drifted: the last call had the
\* threshold of the call before and emitted although its value was less than
\* the threshold away from the value of the call before; held: it had the
\* threshold of the call before and returned without emitting although its
\* value was at least the threshold away from the value of the call before.
NoThresholdHistory ==
    [called |-> FALSE, clean |-> TRUE, emits |-> 0, prev |-> NoValue, ref |-> NoValue,
     thr |-> NoValue, drifted |-> FALSE, held |-> FALSE]

ThresholdHistory(h, l, sev, value, threshold, msg, fmtOk, res) ==
    [called |-> TRUE, clean |-> CleanAfter(h, l, sev, fmtOk, TRUE, res),
     emits |-> EmitsAfter(h, res),
     prev |-> Some(value),
     ref |-> IF ~h.called \/ Emitted(res) THEN Some(value) ELSE h.ref,
     thr |-> Some(threshold),
     drifted |-> /\ Emitted(res)
                 /\ h.thr = Some(threshold)
                 /\ Abs(value - h.prev[1]) < threshold,
     held |-> /\ ~Emitted(res)
              /\ h.thr = Some(threshold)
              /\ Abs(value - h.prev[1]) >= threshold]

NoHistory(s) ==
    CASE s \in PlainSites -> NoPlainHistory
      [] s \in OnceSites -> NoOnceHistory
      [] s \in ThrottleSites -> NoThrottleHistory
      [] s \in ChangeSites -> NoChangeHistory
      [] s \in ThresholdSites -> NoThresholdHistory

NoCall ==
    [op |-> None, site |-> None, logger |-> None, enabled |-> FALSE,
     res |-> Nothing, pre |-> None]

\* The bookkeeping every call shares: the record of the call (the call
\* site's static before it, in pre, and its outcome) and the history h of
\* the call site after it.
Called(op, s, l, sev, pre, res, h) ==
    /\ call' = [op |-> op, site |-> s, logger |-> l, enabled |-> IsEnabledFor(l, sev),
                res |-> res, pre |-> pre]
    /\ hist' = [hist EXCEPT ![s] = h]

\* ---------------------------------------------------------------- threads

\* Threads that run the same call sites at the same time.
Threads == {1, 2}

\* The duration argument of the throttle call site the threads share.
ThreadDuration == 2

\* The locals of a running call: its call site and its reading of the clock.
NoLocals == [site |-> None, now |-> None]

\* ------------------------------------------------------------------- init

\* Before the first call, in a function of whatever signature.
Start ==
    /\ level = [l \in Loggers |-> "DEBUG"]
    /\ clock = [c \in ClockTypes |-> 0]
    /\ already_logged = [s \in OnceSites |-> FALSE]
    /\ last_logged = [s \in ThrottleSites |-> Uninitialised]
    /\ last_value = [s \in ChangeSites \cup ThresholdSites |-> NoValue]
    /\ call = NoCall
    /\ hist = [s \in Sites |-> NoHistory(s)]
    /\ pc = [t \in Threads |-> "idle"]
    /\ local = [t \in Threads |-> NoLocals]

\* The call sites are in a test body.
Init == Start /\ signature = TestBody

\* The call sites are in a function of any signature over Chars.
InitSignatures == Start /\ signature \in Signatures

\* ------------------------------------------------------------ environment

\* The sink's level of a logger is changed (rcutils_logging_set_logger_level).
SetLevelOf(L) ==
    \E l \in L, lv \in Levels :
        /\ level[l] # lv
        /\ level' = [level EXCEPT ![l] = lv]
        /\ UNCHANGED <<clock, already_logged, last_logged, last_value, call, hist, pc, local, signature>>

\* A clock advances.
TickOf(C) ==
    \E c \in C :
        /\ clock[c] < MaxTime
        /\ clock' = [clock EXCEPT ![c] = clock[c] + 1]
        /\ UNCHANGED <<level, already_logged, last_logged, last_value, call, hist, pc, local, signature>>

\* ------------------------------------------------------------- operations
\* Each operation is given the call sites S and the loggers L it is run on,
\* and the severities V and the rendered texts M its calls are drawn from.

\* debug / info / warn / error / fatal
PlainAt(S, L, V, M) ==
    \E s \in S, l \in L, sev \in V, msg \in M, fmtOk \in BOOLEAN :
        LET res == log(l, sev, FormatWithLoc(msg, s), fmtOk)
        IN  Called("plain", s, l, sev, None, res,
                   PlainHistory(hist[s], l, sev, msg, fmtOk, res))
        /\ UNCHANGED <<level, clock, already_logged, last_logged, last_value, pc, local, signature>>

\* debug_once / ... / fatal_once
OnceAt(S, L, V, M) ==
    \E s \in S, l \in L, sev \in V, msg \in M, fmtOk \in BOOLEAN :
        LET st == log_once(already_logged[Unique(s)], l, sev, FormatWithLoc(msg, s), fmtOk)
        IN  /\ already_logged' = [already_logged EXCEPT ![Unique(s)] = st.next]
            /\ Called("once", s, l, sev, already_logged[Unique(s)], st.res,
                      OnceHistory(hist[s], l, sev, msg, fmtOk, st.res))
            /\ UNCHANGED <<level, clock, last_logged, last_value, pc, local, signature>>

\* debug_throttle / ... / fatal_throttle
ThrottleWith(S, L, V, M, D, F, C) ==
    \E s \in S, l \in L, sev \in V, duration \in D,
       msg \in M, fmtOk \in F, clockOk \in C :
        LET st == log_throttle(last_logged[Unique(s)], l, sev, duration,
                               FormatWithLoc(msg, s), fmtOk, clockOk)
            now == IF clockOk THEN clock[ClockTypeOf(l)] ELSE None
        IN  /\ last_logged' = [last_logged EXCEPT ![Unique(s)] = st.next]
            /\ Called("throttle", s, l, sev, last_logged[Unique(s)], st.res,
                      ThrottleHistory(hist[s], l, sev, now, msg, fmtOk, clockOk, st.res))
            /\ UNCHANGED <<level, clock, already_logged, last_value, pc, local, signature>>

ThrottleAt(S, L, V, M) == ThrottleWith(S, L, V, M, Params, BOOLEAN, BOOLEAN)

\* debug_on_change / ... / fatal_on_change (value)
OnChangeAt(S, L, V, M) ==
    \E s \in S, l \in L, sev \in V, value \in Values,
       msg \in M, fmtOk \in BOOLEAN :
        LET st == log_on_change(last_value[Unique(s)], l, sev, value,
                                FormatWithLoc(msg, s), fmtOk)
        IN  /\ last_value' = [last_value EXCEPT ![Unique(s)] = st.next]
            /\ Called("on_change", s, l, sev, last_value[Unique(s)], st.res,
                      ChangeHistory(hist[s], l, sev, value, msg, fmtOk, st.res))
            /\ UNCHANGED <<level, clock, already_logged, last_logged, pc, local, signature>>

\* debug_on_change / ... / fatal_on_change (value, threshold)
OnChangeThresholdAt(S, L, V, M) ==
    \E s \in S, l \in L, sev \in V, value \in Values,
       threshold \in Params, msg \in M, fmtOk \in BOOLEAN :
        LET st == log_on_change_threshold(last_value[Unique(s)], l, sev, value, threshold,
                                          FormatWithLoc(msg, s), fmtOk)
        IN  /\ last_value' = [last_value EXCEPT ![Unique(s)] = st.next]
            /\ Called("on_change_threshold", s, l, sev, last_value[Unique(s)], st.res,
                      ThresholdHistory(hist[s], l, sev, value, threshold, msg, fmtOk, st.res))
            /\ UNCHANGED <<level, clock, already_logged, last_logged, pc, local, signature>>

\* ------------------------------------------------------ public operations
\* The public operations are named severity_mode: debug, debug_once,
\* debug_throttle, debug_on_change (without and with threshold), and the
\* same for info, warn, error and fatal.

SeverityNames == {"debug", "info", "warn", "error", "fatal"}
ModeNames == {"plain", "once", "throttle", "on_change", "on_change_threshold"}
Operations == SeverityNames \X ModeNames

\* The body of each public operation: the severity it passes and the
\* handler it calls.
Wrappers ==
    <<"debug", "plain">> :> [severity |-> "DEBUG", handler |-> "log"]
    @@ <<"debug", "once">> :> [severity |-> "DEBUG", handler |-> "log_once"]
    @@ <<"debug", "throttle">> :> [severity |-> "DEBUG", handler |-> "log_throttle"]
    @@ <<"debug", "on_change">> :> [severity |-> "DEBUG", handler |-> "log_on_change"]
    @@ <<"debug", "on_change_threshold">> :> [severity |-> "DEBUG", handler |-> "log_on_change_threshold"]
    @@ <<"info", "plain">> :> [severity |-> "INFO", handler |-> "log"]
    @@ <<"info", "once">> :> [severity |-> "INFO", handler |-> "log_once"]
    @@ <<"info", "throttle">> :> [severity |-> "INFO", handler |-> "log_throttle"]
    @@ <<"info", "on_change">> :> [severity |-> "INFO", handler |-> "log_on_change"]
    @@ <<"info", "on_change_threshold">> :> [severity |-> "INFO", handler |-> "log_on_change_threshold"]
    @@ <<"warn", "plain">> :> [severity |-> "WARN", handler |-> "log"]
    @@ <<"warn", "once">> :> [severity |-> "WARN", handler |-> "log_once"]
    @@ <<"warn", "throttle">> :> [severity |-> "WARN", handler |-> "log_throttle"]
    @@ <<"warn", "on_change">> :> [severity |-> "WARN", handler |-> "log_on_change"]
    @@ <<"warn", "on_change_threshold">> :> [severity |-> "WARN", handler |-> "log_on_change_threshold"]
    @@ <<"error", "plain">> :> [severity |-> "ERROR", handler |-> "log"]
    @@ <<"error", "once">> :> [severity |-> "ERROR", handler |-> "log_once"]
    @@ <<"error", "throttle">> :> [severity |-> "ERROR", handler |-> "log_throttle"]
    @@ <<"error", "on_change">> :> [severity |-> "ERROR", handler |-> "log_on_change"]
    @@ <<"error", "on_change_threshold">> :> [severity |-> "ERROR", handler |-> "log_on_change_threshold"]
    @@ <<"fatal", "plain">> :> [severity |-> "FATAL", handler |-> "log"]
    @@ <<"fatal", "once">> :> [severity |-> "FATAL", handler |-> "log_once"]
    @@ <<"fatal", "throttle">> :> [severity |-> "FATAL", handler |-> "log_throttle"]
    @@ <<"fatal", "on_change">> :> [severity |-> "FATAL", handler |-> "log_on_change"]
    @@ <<"fatal", "on_change_threshold">> :> [severity |-> "FATAL", handler |-> "log_on_change_threshold"]

\* info_throttle passing the severity of debug_throttle.
Public_copied(op) ==
    IF op = <<"info", "throttle">>
    THEN [severity |-> "DEBUG", handler |-> "log_throttle"]
    ELSE Wrappers[op]

\* The public operation named op.
Public(op) == Wrappers[op]

\* The call sites of the operations that call handler.
SitesOf(handler) ==
    CASE handler = "log" -> PlainSites
      [] handler = "log_once" -> OnceSites
      [] handler = "log_throttle" -> ThrottleSites
      [] handler = "log_on_change" -> ChangeSites
      [] handler = "log_on_change_threshold" -> ThresholdSites

\* A call of the public operation op, through a logger of L, rendering a
\* text of M.
OperationAt(op, L, M) ==
    LET w == Public(op)
        S == SitesOf(w.handler)
    IN  CASE w.handler = "log" -> PlainAt(S, L, {w.severity}, M)
          [] w.handler = "log_once" -> OnceAt(S, L, {w.severity}, M)
          [] w.handler = "log_throttle" -> ThrottleAt(S, L, {w.severity}, M)
          [] w.handler = "log_on_change" -> OnChangeAt(S, L, {w.severity}, M)
          [] w.handler = "log_on_change_threshold" ->
                 OnChangeThresholdAt(S, L, {w.severity}, M)

\* ------------------------------------------------- operations, by thread
\* log_once and log_throttle take no lock and use no atomic: between the
\* read of the static and its write any other thread may run.  Each access
\* to the static is one step.  The loggers' severity is enabled and the
\* pattern matches.

ThreadLogger == "A"

\* The once call site the threads share.
ThreadOnceSites == {"o1"}

\* A thread calls fatal_once at call site s.
OnceEnter(t) ==
    \E s \in ThreadOnceSites :
        /\ pc[t] = "idle"
        /\ pc' = [pc EXCEPT ![t] = "once_test"]
        /\ local' = [local EXCEPT ![t] = [site |-> s, now |-> None]]
        /\ UNCHANGED <<level, clock, already_logged, last_logged, last_value, call, hist, signature>>

\* if (!already_logged)
OnceTest(t) ==
    /\ pc[t] = "once_test"
    /\ pc' = [pc EXCEPT ![t] = IF ~already_logged[local[t].site] THEN "once_set" ELSE "idle"]
    /\ UNCHANGED <<level, clock, already_logged, last_logged, last_value, call, hist, local, signature>>

\* already_logged = true
OnceSet(t) ==
    /\ pc[t] = "once_set"
    /\ already_logged' = [already_logged EXCEPT ![local[t].site] = TRUE]
    /\ pc' = [pc EXCEPT ![t] = "once_log"]
    /\ UNCHANGED <<level, clock, last_logged, last_value, call, hist, local, signature>>

\* log(severity, format, args)
OnceLog(t) ==
    /\ pc[t] = "once_log"
    /\ LET s == local[t].site
           res == log(ThreadLogger, "FATAL", FormatWithLoc("m1", s), TRUE)
       IN  Called("once", s, ThreadLogger, "FATAL", TRUE, res,
                  OnceHistory(hist[s], ThreadLogger, "FATAL", "m1", TRUE, res))
    /\ pc' = [pc EXCEPT ![t] = "idle"]
    /\ UNCHANGED <<level, clock, already_logged, last_logged, last_value, local, signature>>

\* A thread calls fatal_throttle(ThreadDuration, ...) at call site s: the
\* static is initialised (under the compiler's guard) and the clock is read.
ThrottleEnter(t) ==
    \E s \in ThrottleSites :
        /\ pc[t] = "idle"
        /\ last_logged' = [last_logged EXCEPT ![s] = InitLastLogged(last_logged[s], ThreadLogger)]
        /\ pc' = [pc EXCEPT ![t] = "throttle_test"]
        /\ local' = [local EXCEPT ![t] = [site |-> s, now |-> clock[ClockTypeOf(ThreadLogger)]]]
        /\ UNCHANGED <<level, clock, already_logged, last_value, call, hist, signature>>

\* if ((now - last_logged) >= duration)
ThrottleTest(t) ==
    /\ pc[t] = "throttle_test"
    /\ pc' = [pc EXCEPT ![t] =
                IF Elapsed(local[t].now, last_logged[local[t].site].ns, ThreadDuration)
                THEN "throttle_set" ELSE "idle"]
    /\ UNCHANGED <<level, clock, already_logged, last_logged, last_value, call, hist, local, signature>>

\* last_logged = now
ThrottleSet(t) ==
    /\ pc[t] = "throttle_set"
    /\ last_logged' = [last_logged EXCEPT
                         ![local[t].site] = Time(local[t].now, ClockTypeOf(ThreadLogger))]
    /\ pc' = [pc EXCEPT ![t] = "throttle_log"]
    /\ UNCHANGED <<level, clock, already_logged, last_value, call, hist, local, signature>>

\* log(severity, format, args)
ThrottleLog(t) ==
    /\ pc[t] = "throttle_log"
    /\ LET s == local[t].site
           res == log(ThreadLogger, "FATAL", FormatWithLoc("m1", s), TRUE)
       IN  Called("throttle", s, ThreadLogger, "FATAL", last_logged[s], res,
                  ThrottleHistory(hist[s], ThreadLogger, "FATAL", local[t].now, "m1",
                                  TRUE, TRUE, res))
    /\ pc' = [pc EXCEPT ![t] = "idle"]
    /\ UNCHANGED <<level, clock, already_logged, last_logged, last_value, local, signature>>

\* --------------------------------------------------------- specifications

\* The severities the rate-controlled operations are called with.
CallSeverities == {"WARN", "FATAL"}

SetLevel == SetLevelOf(Loggers)
SetLevelA == SetLevelOf({"A"})
Tick == TickOf({ClockTypeOf("A")})
Plain == PlainAt(PlainSites, Loggers, Severities, Msgs)
Once == OnceAt(OnceSites, Loggers, CallSeverities, Msgs)
Throttle == ThrottleAt(ThrottleSites, {"A"}, CallSeverities, {"m1"})
OnChange == OnChangeAt(ChangeSites, Loggers, CallSeverities, {"m1"})
OnChangeThreshold == OnChangeThresholdAt(ThresholdSites, {"A"}, CallSeverities, {"m1"})

Next == SetLevel \/ Tick \/ Plain \/ Once \/ Throttle \/ OnChange \/ OnChangeThreshold

Spec == Init /\ [][Next]_vars

\* One rate-control mode at a time, with the environment.
NextOnce == SetLevel \/ Once
SpecOnce == Init /\ [][NextOnce]_vars

NextThrottle == SetLevelA \/ Tick \/ Throttle
SpecThrottle == Init /\ [][NextThrottle]_vars

NextOnChange == SetLevel \/ OnChange
SpecOnChange == Init /\ [][NextOnChange]_vars

NextOnChangeThreshold == SetLevelA \/ OnChangeThreshold
SpecOnChangeThreshold == Init /\ [][NextOnChangeThreshold]_vars

\* The plain operations, with the environment.
NextPlain == SetLevel \/ Plain
SpecPlain == Init /\ [][NextPlain]_vars

\* Plain calls from a function of any signature.
NextSignatures == PlainAt(PlainSites, {"A"}, {"FATAL"}, Msgs)
SpecSignatures == InitSignatures /\ [][NextSignatures]_vars

\* A process whose calls all use one rate-control mode, whichever it is: the
\* call sites in S are run only while no call site outside S has been.  The
\* clock is read by log_throttle alone, and the sink's level stays as it is.
\* The calls are those of fatal, fatal_once, fatal_throttle and fatal_on_change.
OneMode(S) == \A s \in Sites \ S : ~hist[s].called

NextModes ==
    \/ OneMode(ThrottleSites) /\ Tick
    \/ OneMode(PlainSites) /\ OperationAt(<<"fatal", "plain">>, {"A"}, {"m1"})
    \/ OneMode(OnceSites) /\ OperationAt(<<"fatal", "once">>, {"A"}, {"m1"})
    \/ OneMode(ThrottleSites) /\ OperationAt(<<"fatal", "throttle">>, {"A"}, {"m1"})
    \/ OneMode(ChangeSites) /\ OperationAt(<<"fatal", "on_change">>, {"A"}, {"m1"})
    \/ OneMode(ThresholdSites)
          /\ OperationAt(<<"fatal", "on_change_threshold">>, {"A"}, {"m1"})
SpecModes == Init /\ [][NextModes]_vars

\* The same process at a clock that stands still.
NextOperations ==
    \/ OneMode(PlainSites) /\ OperationAt(<<"fatal", "plain">>, {"A"}, {"m1"})
    \/ OneMode(OnceSites) /\ OperationAt(<<"fatal", "once">>, {"A"}, {"m1"})
    \/ OneMode(ThrottleSites) /\ OperationAt(<<"fatal", "throttle">>, {"A"}, {"m1"})
    \/ OneMode(ChangeSites) /\ OperationAt(<<"fatal", "on_change">>, {"A"}, {"m1"})
    \/ OneMode(ThresholdSites)
          /\ OperationAt(<<"fatal", "on_change_threshold">>, {"A"}, {"m1"})
SpecOperations == Init /\ [][NextOperations]_vars

\* The process that uses one rate-control mode, calling the warn operations
\* at a clock that stands still while the sink's level changes.
NextDeferred ==
    \/ SetLevelA
    \/ OneMode(PlainSites) /\ OperationAt(<<"warn", "plain">>, {"A"}, {"m1"})
    \/ OneMode(OnceSites) /\ OperationAt(<<"warn", "once">>, {"A"}, {"m1"})
    \/ OneMode(ThrottleSites) /\ OperationAt(<<"warn", "throttle">>, {"A"}, {"m1"})
    \/ OneMode(ChangeSites) /\ OperationAt(<<"warn", "on_change">>, {"A"}, {"m1"})
    \/ OneMode(ThresholdSites)
          /\ OperationAt(<<"warn", "on_change_threshold">>, {"A"}, {"m1"})
SpecDeferred == Init /\ [][NextDeferred]_vars

\* One throttle call site run by both loggers, each with its own clock.
NextShared ==
    \/ TickOf(ClockTypes)
    \/ ThrottleAt(ThrottleSites, Loggers, {"FATAL"}, {"m1"})
SpecShared == Init /\ [][NextShared]_vars

\* One throttle call site that is invoked again and again with positive
\* durations, its severity enabled, clock and patterns fine, while the clock
\* keeps advancing (as far as MaxTime).
LiveDurations == 1..MaxParam

ThrottleLive ==
    ThrottleWith(ThrottleSites, {"A"}, CallSeverities, Msgs, LiveDurations, {TRUE}, {TRUE})
NextLive == Tick \/ ThrottleLive
SpecLive == Init /\ [][NextLive]_vars /\ WF_vars(Tick) /\ WF_vars(ThrottleLive)

\* Two threads in log_once and log_throttle, step by step.
NextThreads ==
    \/ Tick
    \/ \E t \in Threads :
          \/ OnceEnter(t) \/ OnceTest(t) \/ OnceSet(t) \/ OnceLog(t)
          \/ ThrottleEnter(t) \/ ThrottleTest(t) \/ ThrottleSet(t) \/ ThrottleLog(t)
SpecThreads == Init /\ [][NextThreads]_vars

\* ----------------------------------------------------------------- claims

\* The static of a call site.
StaticOf(s) ==
    CASE s \in OnceSites -> already_logged[s]
      [] s \in ThrottleSites -> last_logged[s]
      [] s \in ChangeSites \cup ThresholdSites -> last_value[s]
      [] OTHER -> None

RateControlled == {"once", "throttle", "on_change", "on_change_threshold"}

\* C1: a once, throttle or on_change call whose severity is disabled leaves
\* the call site's rate-control state as it was before the call.
C1_DisabledCallLeavesState ==
    (call.op \in RateControlled /\ ~call.enabled) => StaticOf(call.site) = call.pre

\* C2: with the severity enabled and every pattern matching, a once call
\* site that has been invoked has made exactly one emission, and it carries
\* the message of the first invocation.
C2_OnceEmitsFirstOnly ==
    \A s \in OnceSites :
        (hist[s].called /\ hist[s].clean) =>
            (hist[s].emits = 1 /\ hist[s].lastEmit = hist[s].first)

\* A once call site has been invoked again after its emission, and the later
\* invocation was suppressed.
C2_Witness ==
    /\ call.op = "once"
    /\ call.pre = TRUE
    /\ ~Emitted(call.res)
    /\ hist[call.site].clean
    /\ hist[call.site].emits = 1

\* C3: at a throttle call site that has emitted before (severity enabled,
\* clock read and pattern fine on every call), a call with duration D emits
\* if and only if its clock reading minus the clock reading of the last
\* emission is at least D.
C3_ThrottleEmitsIffElapsed ==
    \A s \in ThrottleSites, l \in {"A"}, sev \in CallSeverities, duration \in Params :
        LET st == log_throttle(last_logged[s], l, sev, duration, FormatWithLoc("m1", s),
                                 TRUE, TRUE)
        IN  (hist[s].clean /\ hist[s].emits > 0 /\ IsEnabledFor(l, sev)) =>
                /\ st.res.threw = "none"
                /\ Emitted(st.res) <=> (clock[ClockTypeOf(l)] - hist[s].lastEmit[1] >= duration)

\* A throttle call site has emitted a second time, at least D after the first.
C3_Witness ==
    /\ call.op = "throttle"
    /\ Emitted(call.res)
    /\ hist[call.site].clean
    /\ hist[call.site].emits = 2
    /\ hist[call.site].gap # NoValue
    /\ hist[call.site].gap[1] > 0

\* C4: the first invocation of a throttle call site emits, whatever the
\* duration and the clock reading (severity enabled, clock read and pattern
\* fine).
C4_FirstThrottleCallEmits ==
    (/\ call.op = "throttle"
     /\ call.pre = Uninitialised
     /\ hist[call.site].clean) => Emitted(call.res)

\* C5: at an on_change call site without threshold (severity enabled and
\* pattern fine on every call) the first call does not emit, a later call
\* emits if and only if its value is not the value of the call before, and
\* the emissions are as many as those changes.
C5_OnChangeEmitsIffChanged ==
    \A s \in ChangeSites, l \in Loggers, sev \in CallSeverities, value \in Values :
        LET st == log_on_change(last_value[s], l, sev, value, FormatWithLoc("m1", s), TRUE)
        IN  (hist[s].clean /\ IsEnabledFor(l, sev)) =>
                /\ hist[s].emits = hist[s].changes
                /\ ~hist[s].called => ~Emitted(st.res)
                /\ hist[s].called => (Emitted(st.res) <=> Some(value) # hist[s].prev)

\* An on_change call site has emitted on a changed value.
C5_Witness ==
    /\ call.op = "on_change"
    /\ Emitted(call.res)
    /\ hist[call.site].clean
    /\ hist[call.site].changes = 1
    /\ hist[call.site].emits = 1

\* C6: at an on_change call site with threshold, after every call the stored
\* baseline is the value passed to that call.
C6_BaselineIsLastObservation ==
    \A s \in ThresholdSites :
        (hist[s].called /\ hist[s].clean) => last_value[s] = hist[s].prev

\* C6 as amended: the stored baseline is the value of the call that emitted
\* last and, before any emission, the value of the first call; a suppressed
\* call leaves it as it was.
C6_BaselineIsLastEmission ==
    \A s \in ThresholdSites :
        /\ hist[s].called => last_value[s] # NoValue
        /\ (hist[s].called /\ hist[s].clean) => last_value[s] = hist[s].ref
        /\ (call.op = "on_change_threshold" /\ call.site = s /\ call.pre # NoValue
              /\ call.res = Nothing /\ call.enabled) => last_value[s] = call.pre

\* A call below the threshold was suppressed and the baseline is not its value.
C6_Witness ==
    /\ call.op = "on_change_threshold"
    /\ hist[call.site].clean
    /\ ~Emitted(call.res)
    /\ call.pre # NoValue
    /\ last_value[call.site] = call.pre
    /\ last_value[call.site] # hist[call.site].prev

\* C7: at an on_change call site with threshold T (severity enabled, pattern
\* fine), a call after the first emits if and only if its value differs by
\* at least T from the value of the call before: no call emits on a smaller
\* step, and none is suppressed on a step of at least T.
C7_ComparesWithPreviousObservation ==
    \A s \in ThresholdSites :
        hist[s].clean => (~hist[s].drifted /\ ~hist[s].held)

\* C7 as amended: the comparison is against the stored baseline, which moves
\* only when a call emits: a call emits if and only if its value differs by
\* at least T from the baseline, the baseline becomes its value exactly
\* then, and so a step smaller than T from the call before emits as soon as
\* the drift from the baseline has reached T.
C7_ComparesWithBaseline ==
    \A s \in ThresholdSites, l \in {"A"}, sev \in CallSeverities, value \in Values,
       threshold \in Params :
        LET st == log_on_change_threshold(last_value[s], l, sev, value, threshold,
                                          FormatWithLoc("m1", s), TRUE)
            drift == Abs(value - hist[s].ref[1])
            step == Abs(value - hist[s].prev[1])
        IN  (hist[s].called /\ hist[s].clean /\ IsEnabledFor(l, sev)) =>
                /\ (step < threshold /\ drift >= threshold) => Emitted(st.res)
                /\ (step >= threshold /\ drift < threshold) => ~Emitted(st.res)
                /\ Emitted(st.res) => st.next = Some(value)
                /\ ~Emitted(st.res) => st.next = last_value[s]

\* A step smaller than the threshold has emitted: the value has drifted by
\* the threshold since the baseline.
C7_Witness ==
    /\ call.op = "on_change_threshold"
    /\ Emitted(call.res)
    /\ hist[call.site].clean
    /\ hist[call.site].drifted

\* TestFatalOnChangeWithThreshold: threshold 5.0 and the temperatures 20.0,
\* 24.0, 25.5, 27.0, 31.0, in half degrees.
TestThreshold == 10
TestTemperatures == <<40, 48, 51, 54, 62>>

\* Which of the calls with the given values emit, at a call site whose static
\* is last, run through log_on_change_threshold one after the other.
RECURSIVE EmissionsOver(_, _, _)
EmissionsOver(values, threshold, last) ==
    IF values = <<>> THEN <<>>
    ELSE LET st == log_on_change_threshold(last, "A", "FATAL", Head(values), threshold,
                                           FormatWithLoc("m1", "h1"), TRUE)
         IN  <<Emitted(st.res)>> \o EmissionsOver(Tail(values), threshold, st.next)

\* C8: at an on_change call site with threshold T (severity enabled), a call
\* emits if and only if its value differs by at least T from the last logged
\* value, which before any emission is the first observed value; of the
\* calls with 20, 24, 25.5, 27, 31 and T = 5 exactly the third and the fifth
\* emit.
C8_EmitsIffFarFromLastLogged ==
    /\ EmissionsOver(TestTemperatures, TestThreshold, NoValue)
          = <<FALSE, FALSE, TRUE, FALSE, TRUE>>
    /\ \A s \in ThresholdSites, l \in {"A"}, sev \in CallSeverities, value \in Values,
          threshold \in Params :
           LET st == log_on_change_threshold(last_value[s], l, sev, value, threshold,
                                             FormatWithLoc("m1", s), TRUE)
           IN  (hist[s].clean /\ IsEnabledFor(l, sev)) =>
                   /\ ~hist[s].called => ~Emitted(st.res)
                   /\ hist[s].called =>
                        (Emitted(st.res) <=> Abs(value - hist[s].ref[1]) >= threshold)

\* A threshold call site has emitted twice.
C8_Witness ==
    /\ call.op = "on_change_threshold"
    /\ Emitted(call.res)
    /\ hist[call.site].clean
    /\ hist[call.site].emits = 2

\* C9: a once call site that two threads run at the same time makes at most
\* one emission.
C9_OnceAtMostOneEmission ==
    \A s \in OnceSites : hist[s].emits <= 1

\* C10: at a throttle call site that two threads run at the same time, any
\* two emissions are at least the duration apart in clock time.
C10_ThrottleEmissionsApart ==
    \A s \in ThrottleSites :
        hist[s].gap # NoValue => hist[s].gap[1] >= ThreadDuration

\* C11: when the clock cannot be read and both ERROR and the call's severity
\* are enabled, a throttle call (pattern fine) returns normally after exactly
\* two emissions through its logger: the ERROR diagnostic with the failure
\* text, then the requested message at its own severity and location,
\* whatever the duration and the time since the last emission.
C11_ClockFailureFailsOpen ==
    \A s \in ThrottleSites, l \in {"A"}, sev \in CallSeverities, duration \in Params :
        LET format == FormatWithLoc("m1", s)
            st == log_throttle(last_logged[s], l, sev, duration, format, TRUE, FALSE)
        IN  (IsEnabledFor(l, "ERROR") /\ IsEnabledFor(l, sev)) =>
                /\ st.res.threw = "none"
                /\ Len(st.res.out) = 2
                /\ st.res.out[1].severity = "ERROR"
                /\ st.res.out[1].name = l
                /\ st.res.out[1].text = RCLErrorFormat.str
                /\ st.res.out[2] = Emission(l, sev, format)

\* A throttle call whose clock read failed has made its two emissions at the
\* very clock reading of the call site's last throttled emission.
C11_Witness ==
    /\ call.op = "throttle"
    /\ call.res.threw = "none"
    /\ Len(call.res.out) = 2
    /\ call.res.out[1].severity = "ERROR"
    /\ Emitted(call.res)
    /\ hist[call.site].lastEmit = Some(clock[ClockTypeOf(call.logger)])


\* The outcomes, in the current state, of the calls that differ only in
\* whether the pattern matches its arguments (ok: it does, bad: it does
\* not), for every mode, call site and input; clocks: whether the clock of
\* a throttle call can be read.
FormatOutcomesOf(sev, clocks) ==
    LET l == "A"
        F(s) == FormatWithLoc("m1", s)
    IN    {[ok |-> log(l, sev, F(s), TRUE), bad |-> log(l, sev, F(s), FALSE)] :
              s \in PlainSites}
          \cup
          {[ok |-> log_once(already_logged[s], l, sev, F(s), TRUE).res,
            bad |-> log_once(already_logged[s], l, sev, F(s), FALSE).res] :
              s \in OnceSites}
          \cup
          {[ok |-> log_throttle(last_logged[x[1]], l, sev, x[2], F(x[1]), TRUE, x[3]).res,
            bad |-> log_throttle(last_logged[x[1]], l, sev, x[2], F(x[1]), FALSE, x[3]).res] :
              x \in ThrottleSites \X Params \X clocks}
          \cup
          {[ok |-> log_on_change(last_value[x[1]], l, sev, x[2], F(x[1]), TRUE).res,
            bad |-> log_on_change(last_value[x[1]], l, sev, x[2], F(x[1]), FALSE).res] :
              x \in ChangeSites \X Values}
          \cup
          {[ok |-> log_on_change_threshold(last_value[x[1]], l, sev, x[2], x[3],
                                           F(x[1]), TRUE).res,
            bad |-> log_on_change_threshold(last_value[x[1]], l, sev, x[2], x[3],
                                            F(x[1]), FALSE).res] :
              x \in ThresholdSites \X Values \X Params}

FormatOutcomes(clocks) == UNION {FormatOutcomesOf(sev, clocks) : sev \in CallSeverities}

\* C12: in every mode, a call that would emit with a matching pattern
\* (severity enabled, rate policy allowing) throws the format error to its
\* caller when the pattern does not match, and forwards nothing at all to
\* the sink.
C12_FormatErrorForwardsNothing ==
    \A o \in FormatOutcomes(BOOLEAN) :
        Emitted(o.ok) => o.bad = Outcome(<<>>, "format_error")

\* C12 as amended: the format error reaches the caller in every mode and the
\* requested message is not forwarded; nothing at all is forwarded when the
\* clock can be read, and when the clock read of a throttle call has failed
\* the ERROR diagnostic is the one emission that has been forwarded before
\* the error is thrown.
C12_FormatErrorPropagates ==
    /\ \A o \in FormatOutcomes({TRUE}) :
           Emitted(o.ok) => o.bad = Outcome(<<>>, "format_error")
    /\ \A o \in FormatOutcomes({FALSE}) :
           Emitted(o.ok) =>
               /\ o.bad.threw = "format_error"
               /\ ~Emitted(o.bad)
               /\ o.bad.out = SelectSeq(o.ok.out, LAMBDA e : e.text = RCLErrorFormat.str)
    /\ (call.op # None /\ call.res.threw = "format_error") =>
           (call.enabled /\ ~Emitted(call.res))

\* An on_change call with threshold, whose value was far enough from the
\* baseline, has thrown the format error and forwarded nothing.
C12_Witness ==
    /\ call.op = "on_change_threshold"
    /\ call.enabled
    /\ call.pre # NoValue
    /\ call.res = Outcome(<<>>, "format_error")


\* The once call sites that have been invoked.
OnceInvoked == {s \in OnceSites : hist[s].called}

\* C13: a call changes the static of its own call site only, also when the
\* call sites share the logger and the text: once call sites that have been
\* invoked (severity enabled, pattern fine), however often each, have made
\* one emission each, as many emissions as there are call sites.
C13_CallSitesIndependent ==
    /\ [][\A s \in Sites \ PlainSites :
              StaticOf(s)' # StaticOf(s) => call'.site = s]_vars
    /\ []((\A s \in OnceInvoked : hist[s].clean) =>
             /\ \A s \in OnceInvoked : hist[s].emits = 1
             /\ Cardinality({s \in OnceSites : hist[s].emits > 0}) = Cardinality(OnceInvoked))

\* Two once call sites have each emitted the same text through the same
\* logger, and the one invoked again has been suppressed.
C13_Witness ==
    /\ call.op = "once"
    /\ call.pre = TRUE
    /\ ~Emitted(call.res)
    /\ OnceInvoked = OnceSites
    /\ \A s \in OnceSites :
           /\ hist[s].clean
           /\ hist[s].emits = 1
           /\ hist[s].lastEmit = Some("m1")
           /\ hist[s].by = Some(call.logger)


\* C14: once a once call site has emitted, through whichever logger, every
\* further invocation of it is suppressed, whichever logger (of whatever
\* name), severity and arguments it is made with, and leaves the flag set.
C14_OnceStateIsPerCallSite ==
    \A s \in OnceSites :
        /\ hist[s].emits <= 1
        /\ hist[s].emits = 1 =>
               \A l \in Loggers, sev \in Severities, msg \in Msgs, fmtOk \in BOOLEAN :
                   log_once(already_logged[Unique(s)], l, sev, FormatWithLoc(msg, s), fmtOk)
                       = Step(TRUE, Nothing)

\* A once call site that has emitted through one logger has been invoked
\* through the other logger, with its severity enabled, and was suppressed.
C14_Witness ==
    /\ call.op = "once"
    /\ call.enabled
    /\ call.pre = TRUE
    /\ call.res = Nothing
    /\ hist[call.site].emits = 1
    /\ hist[call.site].by # NoValue
    /\ hist[call.site].by # Some(call.logger)


\* C15: a plain call (pattern fine) makes exactly one emission when its
\* severity is enabled for its logger and none when it is not, however often
\* the call site has run before; the emission carries the severity of the
\* operation, the logger's name, the call site's file and line with the
\* function name, and the rendered text; no static is touched.
C15_PlainEmitsWhenEnabled ==
    /\ already_logged = [s \in OnceSites |-> FALSE]
    /\ last_logged = [s \in ThrottleSites |-> Uninitialised]
    /\ last_value = [s \in ChangeSites \cup ThresholdSites |-> NoValue]
    /\ \A s \in PlainSites, l \in Loggers, sev \in Severities, msg \in Msgs :
           log(l, sev, FormatWithLoc(msg, s), TRUE) =
               IF IsEnabledFor(l, sev)
               THEN Outcome(<<[location |-> [function_name |-> extract_function_name(signature),
                                             file_line |-> s],
                               severity |-> sev, name |-> l, text |-> msg]>>, "none")
               ELSE Nothing
    /\ (call.op = "plain" /\ call.res.threw = "none") =>
           Len(call.res.out) = (IF call.enabled THEN 1 ELSE 0)

\* A plain call site that had emitted before has been run again, enabled,
\* and has emitted again.
C15_Witness ==
    /\ call.op = "plain"
    /\ call.enabled
    /\ Len(call.res.out) = 1
    /\ call.res.out[1].location.file_line = call.site
    /\ hist[call.site].clean
    /\ hist[call.site].emits = 2


\* The string is shaped like a signature with a parameter list: it begins
\* with a letter and a letter stands before its first parenthesis.
HasParameterList(str) ==
    LET parenthesis == find(str, "(")
    IN  parenthesis > 1 /\ str[1] = "f" /\ str[parenthesis - 1] = "f"

\* C16: whenever the signature of the enclosing function has a parameter
\* list, the function name an emission carries has no space (so no return
\* type before the name) and no scope separator.
C16_BareFunctionName ==
    (call.op = "plain" /\ Emitted(call.res) /\ HasParameterList(signature)) =>
        LET name == call.res.out[1].location.function_name
        IN  /\ \A i \in 1..Len(name) : name[i] # " "
            /\ rfind(name, Len(name)) = npos

\* The severity and the handler an operation's name stands for.
SeverityNamed(name) ==
    CASE name = "debug" -> "DEBUG" [] name = "info" -> "INFO" [] name = "warn" -> "WARN"
      [] name = "error" -> "ERROR" [] name = "fatal" -> "FATAL"

HandlerNamed(mode) ==
    CASE mode = "plain" -> "log" [] mode = "once" -> "log_once"
      [] mode = "throttle" -> "log_throttle" [] mode = "on_change" -> "log_on_change"
      [] mode = "on_change_threshold" -> "log_on_change_threshold"

\* The outcome, in the current state, of handler called at call site s with
\* severity sev through logger A.
OutcomeOf(handler, sev, s, value, param, fmtOk, clockOk) ==
    LET l == "A"
        format == FormatWithLoc("m1", s)
    IN  CASE handler = "log" -> log(l, sev, format, fmtOk)
          [] handler = "log_once" ->
                 log_once(already_logged[Unique(s)], l, sev, format, fmtOk).res
          [] handler = "log_throttle" ->
                 log_throttle(last_logged[Unique(s)], l, sev, param, format, fmtOk, clockOk).res
          [] handler = "log_on_change" ->
                 log_on_change(last_value[Unique(s)], l, sev, value, format, fmtOk).res
          [] handler = "log_on_change_threshold" ->
                 log_on_change_threshold(last_value[Unique(s)], l, sev, value, param,
                                         format, fmtOk).res

\* The inputs handler reads: the monitored values, the durations or
\* thresholds, and whether the clock can be read.
ValuesOf(handler) ==
    IF handler \in {"log_on_change", "log_on_change_threshold"} THEN Values ELSE {0}

ParamsOf(handler) ==
    IF handler \in {"log_throttle", "log_on_change_threshold"} THEN Params ELSE {0}

ClocksOf(handler) == IF handler = "log_throttle" THEN BOOLEAN ELSE {TRUE}

\* The emission is the diagnostic of a throttle call whose clock read failed.
IsClockDiagnostic(res, i) ==
    /\ i = 1
    /\ res.out[i].severity = "ERROR"
    /\ res.out[i].text = RCLErrorFormat.str

\* C17: each public operation calls the handler of the mode in its name, and
\* whatever it forwards to the sink (pattern fine; otherwise it forwards no
\* message) has the severity in its name, but for the ERROR diagnostic a
\* throttle operation forwards first when the clock read fails.
C17_OperationsForwardNamedSeverity ==
    /\ \A op \in Operations :
           LET w == Public(op)
           IN  /\ w.handler = HandlerNamed(op[2])
               /\ \A s \in SitesOf(w.handler), value \in ValuesOf(w.handler),
                     param \in ParamsOf(w.handler), clockOk \in ClocksOf(w.handler) :
                      LET res == OutcomeOf(w.handler, w.severity, s, value, param,
                                           TRUE, clockOk)
                      IN  \A i \in 1..Len(res.out) :
                              \/ res.out[i].severity = SeverityNamed(op[1])
                              \/ /\ op[2] = "throttle"
                                 /\ ~clockOk
                                 /\ IsClockDiagnostic(res, i)
    /\ call.op # None =>
           /\ call.op \in ModeNames
           /\ \A i \in 1..Len(call.res.out) :
                  \/ call.res.out[i].severity = SeverityNamed("fatal")
                  \/ call.op = "throttle" /\ IsClockDiagnostic(call.res, i)

\* fatal_throttle, its clock read failing, has forwarded the ERROR diagnostic
\* and then its message at FATAL.
C17_Witness ==
    /\ call.op = "throttle"
    /\ Len(call.res.out) = 2
    /\ call.res.out[1].severity = "ERROR"
    /\ call.res.out[2].severity = "FATAL"


\* C18: no step takes the already_logged flag of a once call site from true
\* to false, whatever the call (severity enabled or not, either logger,
\* pattern matching or not).
C18_AlreadyLoggedStaysTrue ==
    [][\A s \in OnceSites : already_logged[s] => already_logged'[s]]_vars

\* A once call site whose flag was set has been invoked again, after a call
\* that was disabled or whose pattern did not match, and the flag is set.
C18_Witness ==
    /\ call.op = "once"
    /\ call.pre = TRUE
    /\ ~hist[call.site].clean
    /\ already_logged[call.site]


\* C19: while the clock does not go backwards, no step makes the last_logged
\* of a throttle call site smaller, whatever the duration (zero and negative
\* ones too), the severity, the pattern and the outcome of the clock read.
C19_LastLoggedNeverDecreases ==
    [][\A s \in ThrottleSites : last_logged'[s].ns >= last_logged[s].ns]_vars

\* A throttle call site has emitted twice at one clock reading (the second
\* call's duration was zero or negative), after the clock had advanced.
C19_Witness ==
    /\ call.op = "throttle"
    /\ Emitted(call.res)
    /\ hist[call.site].gap = Some(0)
    /\ last_logged[call.site].ns > 0
    /\ last_logged[call.site].ns = clock[ClockTypeOf(call.logger)]


\* C20: a throttle call that is suppressed (severity enabled, the elapsed
\* time below the duration) leaves last_logged as it was, so that last_logged
\* stays the clock reading of the last emission and a call emits as soon as
\* its duration has passed since that emission, however many suppressed
\* calls were made in between.
C20_SuppressedCallKeepsLastLogged ==
    /\ (call.op = "throttle" /\ call.enabled /\ call.res = Nothing) =>
           /\ last_logged[call.site].ns = call.pre.ns
           /\ call.pre # Uninitialised => last_logged[call.site] = call.pre
    /\ \A s \in ThrottleSites :
           (hist[s].clean /\ hist[s].emits > 0) =>
               /\ last_logged[s].ns = hist[s].lastEmit[1]
               /\ \A sev \in CallSeverities, duration \in Params :
                      LET st == log_throttle(last_logged[s], "A", sev, duration,
                                             FormatWithLoc("m1", s), TRUE, TRUE)
                      IN  (IsEnabledFor("A", sev)
                             /\ clock[ClockTypeOf("A")] - hist[s].lastEmit[1] >= duration)
                              => Emitted(st.res)

\* A call has just been suppressed at a clock reading later than the last
\* emission, last_logged is still the reading of that emission, and a call
\* made now with the (positive) time passed since the emission as its
\* duration emits.
C20_Witness ==
    /\ call.op = "throttle"
    /\ call.enabled
    /\ call.res = Nothing
    /\ hist[call.site].clean
    /\ hist[call.site].emits > 0
    /\ last_logged[call.site] = call.pre
    /\ LET s == call.site
           l == call.logger
           passed == clock[ClockTypeOf(l)] - last_logged[s].ns
       IN  /\ passed > 0
           /\ passed \in Params
           /\ Emitted(log_throttle(last_logged[s], l, "FATAL", passed,
                                   FormatWithLoc("m1", s), TRUE, TRUE).res)


\* C21: at an on_change call site of either form last_value is empty exactly
\* as long as the call site has not been invoked: the first invocation, with
\* whatever value, threshold (zero and negative ones too), severity and
\* pattern, stores its value and forwards nothing, and afterwards last_value
\* holds a value.
C21_BaselineAbsentUntilFirstCall ==
    /\ \A s \in ChangeSites \cup ThresholdSites :
           hist[s].called <=> last_value[s] # NoValue
    /\ \A s \in ChangeSites, sev \in Severities, value \in Values, fmtOk \in BOOLEAN :
           last_value[s] = NoValue =>
               log_on_change(last_value[s], "A", sev, value, FormatWithLoc("m1", s), fmtOk)
                   = Step(Some(value), Nothing)
    /\ \A s \in ThresholdSites, sev \in Severities, value \in Values, threshold \in Params,
          fmtOk \in BOOLEAN :
           last_value[s] = NoValue =>
               log_on_change_threshold(last_value[s], "A", sev, value, threshold,
                                       FormatWithLoc("m1", s), fmtOk)
                   = Step(Some(value), Nothing)
    /\ (call.op \in {"on_change", "on_change_threshold"} /\ call.pre = NoValue) =>
           call.res = Nothing

\* The first call at a threshold call site, its threshold negative, has
\* stored its value and forwarded nothing.
C21_Witness ==
    /\ call.op = "on_change_threshold"
    /\ call.pre = NoValue
    /\ call.res = Nothing
    /\ hist[call.site].thr = Some(-1)
    /\ last_value[call.site] = hist[call.site].prev
    /\ last_value[call.site] # NoValue



\* What the function name of a signature is said to be: the signature itself
\* when it has no parenthesis, otherwise what stands between the last scope
\* separator before the first parenthesis (or the start) and that parenthesis.
FunctionNameOf(s) ==
    LET opening == {i \in 1..Len(s) : s[i] = "("}
    IN  IF opening = {} THEN s
        ELSE LET first == CHOOSE i \in opening : \A j \in opening : i <= j
                 separators == {i \in 1..(first - 2) : s[i] = ":" /\ s[i + 1] = ":"}
                 after == IF separators = {} THEN 1
                          ELSE (CHOOSE i \in separators : \A j \in separators : j <= i) + 2
             IN  [k \in 1..(first - after) |-> s[after + k - 1]]

IsSubstring(name, s) ==
    \E from \in 1..(Len(s) + 1) :
        /\ from + Len(name) - 1 <= Len(s)
        /\ \A k \in 1..Len(name) : name[k] = s[from + k - 1]

\* C22: extract_function_name returns the signature itself when it has no
\* parenthesis, otherwise the part between the last scope separator before the
\* first parenthesis (or the start) and that parenthesis; the result is a
\* contiguous part of the signature without a parenthesis, and it is the
\* function name an emission carries.
C22_ExtractFunctionName ==
    LET name == extract_function_name(signature)
    IN  /\ name = FunctionNameOf(signature)
        /\ find(signature, "(") = npos => name = signature
        /\ IsSubstring(name, signature)
        /\ find(name, "(") = npos
        /\ Emitted(call.res) => call.res.out[1].location.function_name = name

C22_Witness ==
    /\ signature = <<":", ":", "f", "(">>
    /\ call.op = "plain"
    /\ Emitted(call.res)
    /\ call.res.out[1].location.function_name = <<"f">>


\* The requested message is among what a call forwarded.
Requested(res) == \E i \in 1..Len(res.out) : res.out[i].text = "m1"

\* C23: a call whose severity is disabled, or that its rate policy suppresses
\* (with a matching pattern it would not forward the message), raises no
\* format error when its pattern does not match its arguments; the pattern is
\* rendered only in a call that forwards the message.
C23_SuppressedCallNeverFormats ==
    /\ \A sev \in CallSeverities : \A o \in FormatOutcomesOf(sev, BOOLEAN) :
           /\ (~IsEnabledFor("A", sev) \/ ~Requested(o.ok)) => o.bad.threw = "none"
           /\ o.bad.threw = "format_error" => (IsEnabledFor("A", sev) /\ Requested(o.ok))
    /\ (call.op # None /\ ~call.enabled) => call.res.threw # "format_error"
    /\ (call.op = "once" /\ call.pre = TRUE) => call.res = Nothing

\* A warn_once call at a call site already used, below the sink's level: with
\* a pattern that does not match, nothing is raised.
C23_Witness ==
    /\ call.op = "once"
    /\ call.pre = TRUE
    /\ ~call.enabled
    /\ call.res = Nothing
    /\ level["A"] = "ERROR"
    /\ log_once(already_logged[call.site], "A", "WARN", FormatWithLoc("m1", call.site), FALSE).res
           = Nothing
    /\ log_throttle(last_logged["t1"], "A", "WARN", 1, FormatWithLoc("m1", "t1"), FALSE, FALSE).res.threw
           = "none"



\* The call made last was a throttle call at s whose clock read failed (seen
\* by its diagnostic).
ClockFailedAt(c, s) ==
    /\ c.op = "throttle"
    /\ c.site = s
    /\ Len(c.res.out) > 0
    /\ IsClockDiagnostic(c.res, 1)

\* C24: a throttle call whose clock read fails leaves last_logged as it was
\* (whatever the severity, duration and pattern), so every later call with a
\* working clock gets the verdict it would have got without the failing call;
\* after calls that all emitted, that is the verdict against the clock reading
\* of the last emission made with a working clock.
C24_ClockFailureKeepsLastLogged ==
    /\ [](\A s \in ThrottleSites :
              LET failed == {log_throttle(last_logged[s], "A", x[1], x[2],
                                          FormatWithLoc("m1", s), x[3], FALSE).next :
                                 x \in CallSeverities \X Params \X BOOLEAN}
              IN  /\ failed = {InitLastLogged(last_logged[s], "A")}
                  /\ \A next \in failed, sev \in CallSeverities, duration \in Params :
                         log_throttle(next, "A", sev, duration,
                                      FormatWithLoc("m1", s), TRUE, TRUE)
                           = log_throttle(last_logged[s], "A", sev, duration,
                                          FormatWithLoc("m1", s), TRUE, TRUE))
    /\ [][\A s \in ThrottleSites :
              ClockFailedAt(call', s) =>
                  /\ last_logged'[s].ns = last_logged[s].ns
                  /\ hist'[s].lastEmit = hist[s].lastEmit
                  /\ (hist[s].clean /\ hist[s].emits > 0) =>
                         /\ last_logged'[s].ns = hist[s].lastEmit[1]
                         /\ \A sev \in CallSeverities, duration \in Params :
                                LET st == log_throttle(last_logged'[s], "A", sev, duration,
                                                       FormatWithLoc("m1", s), TRUE, TRUE)
                                IN  Emitted(st.res) <=>
                                        /\ IsEnabledFor("A", sev)
                                        /\ clock[ClockTypeOf("A")] - hist[s].lastEmit[1]
                                               >= duration]_vars

\* A throttle call has failed open after the clock had advanced past the last
\* emission made with a working clock: last_logged is still the reading of
\* that emission, and a call made now is judged against it.
C24_Witness ==
    /\ ClockFailedAt(call, "t1")
    /\ Emitted(call.res)
    /\ hist["t1"].lastEmit # NoValue
    /\ last_logged["t1"].ns = hist["t1"].lastEmit[1]
    /\ LET passed == clock[ClockTypeOf("A")] - last_logged["t1"].ns
       IN  /\ passed = 1
           /\ Emitted(log_throttle(last_logged["t1"], "A", "FATAL", passed,
                                   FormatWithLoc("m1", "t1"), TRUE, TRUE).res)
           /\ ~Emitted(log_throttle(last_logged["t1"], "A", "FATAL", passed + 1,
                                    FormatWithLoc("m1", "t1"), TRUE, TRUE).res)



\* C25: the first invocation of a once call site sets the flag whether it
\* forwarded its message or not (severity disabled, or the pattern not
\* matching): from then on every invocation, with whatever logger, severity
\* and pattern, forwards nothing, so the number of emissions of the call site
\* stays what the first invocation left, zero when it forwarded nothing.
C25_FirstCallConsumesOnce ==
    /\ [](\A s \in OnceSites :
              hist[s].called =>
                  /\ already_logged[s]
                  /\ \A l \in Loggers, sev \in Severities, msg \in Msgs, fmtOk \in BOOLEAN :
                         log_once(already_logged[s], l, sev, FormatWithLoc(msg, s), fmtOk)
                             = Step(TRUE, Nothing))
    /\ []((call.op = "once" /\ call.pre = FALSE /\ ~Emitted(call.res)) =>
              /\ already_logged[call.site]
              /\ hist[call.site].emits = 0)
    /\ [][\A s \in OnceSites : hist[s].called => hist'[s].emits = hist[s].emits]_vars

\* A once call site that has never emitted has been invoked again, with the
\* severity enabled, and was suppressed; a call with a matching pattern is
\* suppressed too.
C25_Witness ==
    /\ call.op = "once"
    /\ call.pre = TRUE
    /\ call.enabled
    /\ call.res = Nothing
    /\ hist[call.site].emits = 0
    /\ IsEnabledFor(call.logger, "WARN")
    /\ log_once(already_logged[call.site], call.logger, "WARN",
                FormatWithLoc("m1", call.site), TRUE) = Step(TRUE, Nothing)



\* C26: a throttle call that reads the clock and passes the elapsed test
\* writes its clock reading to last_logged whether it then forwards the
\* message or not (severity disabled, pattern not matching), and a call that
\* fails the test leaves last_logged as it was; last_logged changes only to
\* the clock reading of the call that changes it, and the next call is judged
\* against last_logged.
C26_LastLoggedWrittenBeforeLog ==
    /\ [](\A s \in ThrottleSites, sev \in CallSeverities, duration \in Params, fmtOk \in BOOLEAN :
              LET init == InitLastLogged(last_logged[s], "A")
                  now == clock[ClockTypeOf("A")]
                  st == log_throttle(last_logged[s], "A", sev, duration,
                                     FormatWithLoc("m1", s), fmtOk, TRUE)
              IN  /\ st.next = IF now - init.ns >= duration
                               THEN Time(now, ClockTypeOf("A")) ELSE init
                  /\ Emitted(st.res) <=>
                         (now - init.ns >= duration /\ IsEnabledFor("A", sev) /\ fmtOk))
    /\ [][\A s \in ThrottleSites :
              last_logged'[s].ns # last_logged[s].ns =>
                  /\ call'.op = "throttle"
                  /\ call'.site = s
                  /\ last_logged'[s].ns = clock[ClockTypeOf(call'.logger)]]_vars

\* A throttle call with its severity disabled has passed the elapsed test
\* and written its clock reading; the clock has advanced since, and a call
\* with its severity enabled is suppressed now although its duration has
\* passed since the last emission.
C26_Witness ==
    /\ call.op = "throttle"
    /\ ~call.enabled
    /\ call.res = Nothing
    /\ last_logged[call.site].ns > call.pre.ns
    /\ hist[call.site].lastEmit # NoValue
    /\ LET s == call.site
           now == clock[ClockTypeOf("A")]
       IN  /\ hist[s].lastEmit[1] < last_logged[s].ns
           /\ last_logged[s].ns < now
           /\ IsEnabledFor("A", "FATAL")
           /\ now - hist[s].lastEmit[1] >= 2
           /\ log_throttle(last_logged[s], "A", "FATAL", 2,
                           FormatWithLoc("m1", s), TRUE, TRUE) = Step(last_logged[s], Nothing)



\* C27: last_logged belongs to the call site, whichever logger runs it: a
\* throttle call through one logger at a call site that has emitted through
\* the other logger, whose clock is of another type, is judged by the elapsed
\* test on its own clock reading against last_logged, so it returns normally,
\* and without forwarding anything while its reading is less than every
\* duration after last_logged.
C27_SharedThrottleJudgesOtherLogger ==
    (/\ call.op = "throttle"
     /\ hist[call.site].lastEmit # NoValue
     /\ call.pre.type # ClockTypeOf(call.logger)) =>
        /\ call.res.threw # "runtime_error"
        /\ (\A duration \in Params :
                clock[ClockTypeOf(call.logger)] - call.pre.ns < duration) =>
               call.res = Nothing


\* C28: a throttle call site that is invoked again and again with positive
\* durations (severity enabled, the clock advancing) first emits, and after
\* each emission emits again at a later clock reading, for every emission
\* early enough for the longest duration to pass before MaxTime; with the
\* duration zero every call emits.
C28_ThrottleEmitsAgain ==
    /\ [](\A sev \in CallSeverities :
              Emitted(log_throttle(last_logged["t1"], "A", sev, 0,
                                   FormatWithLoc("m1", "t1"), TRUE, TRUE).res))
    /\ <>(hist["t1"].emits > 0)
    /\ \A e \in 0..(MaxTime - MaxParam) :
           (hist["t1"].lastEmit = Some(e))
               ~> (hist["t1"].lastEmit # NoValue /\ hist["t1"].lastEmit # Some(e))

\* The call site has emitted, was suppressed within the window, and has
\* emitted again when the longest duration had passed.
C28_Witness ==
    /\ call.op = "throttle"
    /\ Emitted(call.res)
    /\ hist["t1"].emits = 2
    /\ hist["t1"].gap = Some(MaxParam)
    /\ hist["t1"].lastEmit = Some(clock[ClockTypeOf("A")])

====
